---- MODULE Spec2Model ----
(***************************************************************************)
(* Model of the retrieval-augmentation core of graph-chatbot:             *)
(*   - chunkText             (lib/rag/utils, text chunker)                 *)
(*   - processCitations      (components/elements/response.tsx)            *)
(*   - processTextWithCitations (components/citation-processor.tsx)        *)
(*   - processDocumentForRAG (lib/rag/utils, batch ingestion pipeline)     *)
(*   - searchRelevantChunks  (lib/rag/utils, retrieval)                    *)
(*   - POST and DELETE of api/rag/documents, POST of api/rag/search,       *)
(*     the RAG search of POST api/chat                                     *)
(*   - RagDocumentsList      (components/citation-processor.tsx)           *)
(* Texts are sequences of one-character strings.                           *)
(***************************************************************************)
EXTENDS Integers, Sequences, FiniteSets, TLC

VARIABLES
    \* ---- chunkText ----
    text,             \* parameter text
    chunkSize,        \* parameter chunkSize
    overlap,          \* parameter overlap
    start,            \* let start
    lastEnd,          \* const end of the latest loop iteration (-1 before the first)
    chunks,           \* const chunks: the trimmed strings pushed so far
    windows,          \* history: the source span [from, to) of each pushed chunk
    processedChunks,  \* let processedChunks
    chunkPc,          \* "idle" | "loop" | "done"
    chunkResult,      \* the returned array
    \* ---- citation numbering ----
    citeText,         \* the answer text given to the renderers
    citePass,         \* how often the text was replaced by its own numbered output
    respDone,         \* Response (response.tsx) has rendered citeText
    respOut,          \* its processCitations result
    rtcDone,          \* renderTextWithCitations (citation-processor.tsx) has run
    rtcOut,           \* its result
    \* ---- processDocumentForRAG ----
    chunksIn,         \* parameter chunks
    mainPc,           \* where the call is: "idle" | "savingDoc" | "awaitAll" | "delay"
                      \*   | "returned" | "failed"
    batchStart,       \* let i of the batch loop (0-based)
    taskPc,           \* per chunk (1-based): where its async task of batch.map is
    embResult,        \* per chunk: what generateEmbedding returned to its task
    ragDocuments,     \* rows of table RagDocument (their ids)
    ragChunks,        \* rows of table RagChunk
    \* ---- cleanText ----
    cleanIn,          \* parameter text
    cleanI,           \* let i of the block loop
    cleanBlocks,      \* const chunks: the cleaned blocks pushed so far
    cleanPc,          \* "idle" | "loop" | "done"
    cleanOut,         \* the returned string
    \* ---- POST /api/rag/documents ----
    upReq,            \* the request: session, content type, file or JSON body, heap use
    upPc,             \* "idle" | "received" | "extracting" | "extracted" | "chunking"
                      \*   | "ingesting" | "responded" | "crashed"
    upResponse,       \* the response sent ("none" before)
    upTimer,          \* processingTimeout: "unset" | "armed" | "cleared" | "fired"
    pdfData,          \* what processPdf settled with
    pdfTimedOut,      \* history: the 30 s passed while processPdf was still running
    \* ---- DELETE /api/rag/documents ----
    delResponse,      \* the response of the latest DELETE request ("none" before)
    \* ---- RagDocumentsList (citation-processor.tsx) ----
    documents,        \* state documents: the ids of the documents listed
    deletingId,       \* state deletingId ("null" for null)
    delInFlight,      \* per document id: its DELETE requests awaiting their response
    \* ---- searchRelevantChunks ----
    simStore,         \* the stored passages, each with its similarity to the query
    rvArgs,           \* the arguments {query, userId, limit, threshold}
    rvPc,             \* "idle" | "embedding" | "searching" | "resolved" | "rejected"
    rvResult,         \* the chunks returned
    \* ---- POST /api/rag/search ----
    srchReq,          \* the request: session and JSON body
    srchPc,           \* "idle" | "received" | "searching" | "responded"
    srchResponse,     \* the response sent
    \* ---- POST /api/chat, from the RAG search on ----
    chatReq,          \* the text parts of the user message, joined
    chatPc,           \* "idle" | "received" | "retrieving" | "savingMessage"
                      \*   | "creatingStream" | "streaming" | "failed"
    ragContext,       \* let ragContext: the chunks put into the prompt
    chatRetrieval,    \* history: how the RAG search ended
    chatSaved,        \* the user message was handed to saveMessages
    chatSystem        \* the retrieved context streamText got with the system prompt

chunkVars == <<text, chunkSize, overlap, start, lastEnd, chunks, windows,
               processedChunks, chunkPc, chunkResult>>

citeVars == <<citeText, citePass, respDone, respOut, rtcDone, rtcOut>>

ingestVars == <<chunksIn, mainPc, batchStart, taskPc, embResult, ragDocuments, ragChunks>>

cleanVars == <<cleanIn, cleanI, cleanBlocks, cleanPc, cleanOut>>

\* The variables of the parts added to the three above
uploadVars == <<upReq, upPc, upResponse, upTimer, pdfData, pdfTimedOut>>

listVars == <<documents, deletingId, delInFlight>>

deleteVars == <<delResponse, listVars>>

retrievalVars == <<simStore, rvArgs, rvPc, rvResult>>

searchVars == <<srchReq, srchPc, srchResponse>>

chatVars == <<chatReq, chatPc, ragContext, chatRetrieval, chatSaved, chatSystem>>

restVars == <<deleteVars, retrievalVars, searchVars, chatVars>>

auxVars == <<cleanVars, uploadVars, restVars>>

vars == <<chunkVars, citeVars, ingestVars, auxVars>>

----------------------------------------------------------------------------
\* Bounds of the model

MaxTextLen == 6
MaxChunkSize == 5
MaxIterations == 7
MaxCiteLen == 5
MaxNestLen == 7
MaxPasses == 1
MaxChunks == 3
\* const batchSize = 10 of processDocumentForRAG, scaled down
BatchSize == 2
MaxCleanLen == 5
\* chunkText(content, 500, 100) of the upload route, scaled down
RouteChunkSize == 5
RouteOverlap == 1
\* content.trim().length < 10 of the upload route, scaled down
MinPdfTextLen == 2
MaxStored == 2
MaxMarkers == 2
MaxInFlight == 2
\* const chunkSize = 10000 of cleanText, scaled down
CleanBlockSize == 2

----------------------------------------------------------------------------
\* Generic helpers

Min(a, b) == IF a < b THEN a ELSE b
Max(a, b) == IF a > b THEN a ELSE b

SeqsUpTo(S, n) == UNION {[1..k -> S] : k \in 0..n}

\* JavaScript String.prototype.slice(from, to) with 0-based, possibly negative
\* indices: a negative index counts from the end, both are clamped to [0, len].
SliceFrom(s, from) == IF from < 0 THEN Max(Len(s) + from, 0) ELSE Min(from, Len(s))
Slice(s, from, to) ==
    LET f == SliceFrom(s, from)
        t == SliceFrom(s, to)
    IN  IF f < t THEN SubSeq(s, f + 1, t) ELSE <<>>

\* String.prototype.lastIndexOf(c): 0-based index of the last c, -1 if none.
LastIndexOf(s, c) ==
    LET hits == {i \in 1..Len(s) : s[i] = c}
    IN  IF hits = {} THEN -1
        ELSE (CHOOSE i \in hits : \A j \in hits : j <= i) - 1

\* Characters String.prototype.trim() strips.
IsSpace(c) == c \in {" ", "\n", "\t", "\r"}

\* String.prototype.trim()
Trim(s) ==
    LET keep == {i \in 1..Len(s) : ~IsSpace(s[i])}
    IN  IF keep = {} THEN <<>>
        ELSE SubSeq(s, CHOOSE i \in keep : \A j \in keep : i <= j,
                       CHOOSE i \in keep : \A j \in keep : j <= i)

----------------------------------------------------------------------------
\* The parts of the system that take no step in a specification

NoResponse == [processedText |-> <<>>, sources |-> <<>>, citationMap |-> <<>>]
NoRender == [plain |-> TRUE, text |-> <<>>, parts |-> <<>>, sources |-> <<>>]

ChunkIdle ==
    /\ text = <<>> /\ chunkSize = 1 /\ overlap = 0 /\ start = 0 /\ lastEnd = -1
    /\ chunks = <<>> /\ windows = <<>> /\ processedChunks = 0
    /\ chunkPc = "idle" /\ chunkResult = <<>>

CiteIdle ==
    /\ citeText = <<>> /\ citePass = 0
    /\ respDone = FALSE /\ respOut = NoResponse
    /\ rtcDone = FALSE /\ rtcOut = NoRender

IngestIdle ==
    /\ chunksIn = <<>> /\ mainPc = "idle" /\ batchStart = 0
    /\ taskPc = <<>> /\ embResult = <<>>
    /\ ragDocuments = {} /\ ragChunks = {}

CleanIdle ==
    /\ cleanIn = <<>> /\ cleanI = 0 /\ cleanBlocks = <<>>
    /\ cleanPc = "idle" /\ cleanOut = <<>>

NoRequest ==
    [authed |-> FALSE, kind |-> "none", file |-> "none", title |-> <<>>,
     content |-> [isString |-> TRUE, chars |-> <<>>], critical |-> FALSE]

NoPdfData == [ok |-> FALSE, error |-> "none", text |-> <<>>, chunks |-> <<>>]

UploadIdle ==
    /\ upReq = NoRequest /\ upPc = "idle" /\ upResponse = "none"
    /\ upTimer = "unset" /\ pdfData = NoPdfData /\ pdfTimedOut = FALSE

ListIds == {"d1", "d2", "d3"}

ListIdle ==
    /\ documents = {} /\ deletingId = "null" /\ delInFlight = [d \in ListIds |-> 0]

DeleteIdle == delResponse = "none" /\ ListIdle

NoArgs == [query |-> <<>>, userId |-> "none", limit |-> 0, threshold |-> 0]

RetrievalIdle ==
    /\ simStore = <<>> /\ rvArgs = NoArgs /\ rvPc = "idle" /\ rvResult = <<>>

Undefined == [given |-> FALSE, value |-> 0]
NoSearchRequest == [authed |-> FALSE, user |-> "none", query |-> <<>>,
                    limit |-> Undefined, threshold |-> Undefined]
NoSearchResponse == [status |-> 0, chunks |-> <<>>]

SearchIdle ==
    /\ srchReq = NoSearchRequest /\ srchPc = "idle" /\ srchResponse = NoSearchResponse

ChatIdle ==
    /\ chatReq = <<>> /\ chatPc = "idle" /\ ragContext = <<>>
    /\ chatRetrieval = "none" /\ chatSaved = FALSE /\ chatSystem = <<>>

RestIdle == DeleteIdle /\ RetrievalIdle /\ SearchIdle /\ ChatIdle

AuxIdle == CleanIdle /\ UploadIdle /\ RestIdle

----------------------------------------------------------------------------
\* chunkText(text, chunkSize, overlap)

ChunkAlphabet == {"a", " ", ".", "\n"}

\* The window end of the iteration at cursor st: Math.min(start + chunkSize, text.length)
WindowEnd(st) == Min(st + chunkSize, Len(text))

\* Math.max of the four lastIndexOf results over the window
BreakPoint(chunk) ==
    Max(Max(LastIndexOf(chunk, "."), LastIndexOf(chunk, "?")),
        Max(LastIndexOf(chunk, "!"), LastIndexOf(chunk, "\n")))

\* Mutant of WindowChunk: a break point at the midpoint truncates too.
WindowChunkAtMidpoint(st) ==
    LET end == WindowEnd(st)
        chunk == Slice(text, st, end)
    IN  IF end < Len(text) /\ 2 * BreakPoint(chunk) >= chunkSize
        THEN Slice(chunk, 0, BreakPoint(chunk) + 1)
        ELSE chunk

\* The window text after the sentence-boundary truncation.
\* breakPoint > chunkSize * 0.5 is compared as 2 * breakPoint > chunkSize.
WindowChunk(st) ==
    LET end == WindowEnd(st)
        chunk == Slice(text, st, end)
    IN  IF end < Len(text) /\ 2 * BreakPoint(chunk) > chunkSize
        THEN Slice(chunk, 0, BreakPoint(chunk) + 1)
        ELSE chunk

\* Mutant of NextStart: advance by the full window size although the window
\* was truncated at a sentence boundary.
NextStartFullWindow(st, chunk) == st + chunkSize - overlap

\* start = start + chunk.length - overlap
NextStart(st, chunk) == st + Len(chunk) - overlap

\* Mutant of FilterNonEmpty: the final filter is missing.
FilterNothing(cs) == cs

\* chunks.filter((chunk) => chunk.length > 0)
FilterNonEmpty(cs) == SelectSeq(cs, LAMBDA c : Len(c) > 0)

ChunkInit ==
    /\ text \in SeqsUpTo(ChunkAlphabet, MaxTextLen)
    /\ chunkSize \in 1..MaxChunkSize
    /\ overlap \in 0..(chunkSize - 1)
    /\ start = 0
    /\ lastEnd = -1
    /\ chunks = <<>>
    /\ windows = <<>>
    /\ processedChunks = 0
    /\ chunkPc = "loop"
    /\ chunkResult = <<>>
    /\ CiteIdle
    /\ IngestIdle
    /\ AuxIdle

\* One iteration of the while loop (the loop condition held).
ChunkStep ==
    /\ chunkPc = "loop"
    /\ start < Len(text)
    /\ processedChunks < MaxIterations
    /\ LET chunk == WindowChunk(start)
           from  == SliceFrom(text, start)
       IN  /\ chunks' = Append(chunks, Trim(chunk))
           /\ windows' = Append(windows, [from |-> from, to |-> from + Len(chunk)])
           /\ start' = NextStart(start, chunk)
    /\ lastEnd' = WindowEnd(start)
    /\ processedChunks' = processedChunks + 1
    /\ UNCHANGED <<text, chunkSize, overlap, chunkPc, chunkResult>>
    /\ UNCHANGED <<citeVars, ingestVars, auxVars>>

\* The loop condition fails: filter the empty strings and return.
ChunkReturn ==
    /\ chunkPc = "loop"
    /\ ~(start < Len(text))
    /\ chunkResult' = FilterNonEmpty(chunks)
    /\ chunkPc' = "done"
    /\ UNCHANGED <<text, chunkSize, overlap, start, lastEnd, chunks, windows,
                   processedChunks>>
    /\ UNCHANGED <<citeVars, ingestVars, auxVars>>

ChunkNext == ChunkStep \/ ChunkReturn

SpecChunk == ChunkInit /\ [][ChunkNext]_vars

\* ---- properties of chunkText ----

\* The source characters of window i.
WindowText(i) == SubSeq(text, windows[i].from + 1, windows[i].to)

\* Position p (0-based) lies inside window i.
InWindow(p, i) == windows[i].from <= p /\ p < windows[i].to

\* Window i was emitted: its trimmed text is non-empty, so the filter keeps it.
Emitted(i) == Len(chunks[i]) > 0

\* The furthest source position reached by a non-empty window.
Covered ==
    LET ends == {windows[i].to : i \in {j \in 1..Len(windows) : windows[j].from < windows[j].to}}
    IN  IF ends = {} THEN 0 ELSE CHOOSE e \in ends : \A f \in ends : f <= e

\* C1 (as claimed): chunkText terminates; in particular, once an iteration
\* has taken a window that reaches end-of-text, the loop condition is false
\* and the loop exits.
C1_LoopExitsAtEndOfText ==
    (chunkPc = "loop" /\ lastEnd = Len(text)) => ~(start < Len(text))

C3_PassagesNonEmpty ==
    chunkPc = "done" =>
        /\ \A k \in 1..Len(chunkResult) :
              /\ Len(chunkResult[k]) > 0
              /\ ~IsSpace(chunkResult[k][1])
              /\ ~IsSpace(chunkResult[k][Len(chunkResult[k])])
        /\ chunkResult =
              SelectSeq([i \in 1..Len(windows) |-> Trim(WindowText(i))],
                        LAMBDA c : c # <<>>)

\* C3 witness: a return where some window was dropped and some passage kept.
C3_Witness ==
    /\ chunkPc = "done"
    /\ Len(chunkResult) >= 1
    /\ Len(chunkResult) < Len(chunks)

\* C20 (as claimed): every iteration of the loop moves the cursor forward by
\* at least 1, and the cursor is never negative.
C20_CursorStrictlyIncreases ==
    [][processedChunks' = processedChunks + 1 =>
          (start' >= start + 1 /\ start' >= 0)]_vars

\* C21 (as claimed): of any two consecutive windows the second begins at the
\* source position where the first ends minus the overlap, and no further
\* window is taken after one that reached the end of the text.
C21_NextWindowBeginsAtEndMinusOverlap ==
    \A i \in 1..(Len(windows) - 1) :
        /\ windows[i + 1].from = windows[i].to - overlap
        /\ windows[i].to < Len(text)

\* The largest element of a non-empty set of integers
MaxOf(S) == CHOOSE x \in S : \A y \in S : y <= x

\* C22: every iteration emits its window text.slice(cursor, cursor + S)
\* truncated to end just after its rightmost '.', '?', '!' or newline if and
\* only if the window does not reach end-of-text and that character's
\* offset in the window is greater than S * 0.5; otherwise (break point at
\* or before the midpoint, none, window reaching end-of-text) it emits the
\* full window.  What is pushed is the emitted text, trimmed.
C22_TruncatesOnlyPastMidpoint ==
    [][processedChunks' = processedChunks + 1 =>
          LET w == Slice(text, start, start + chunkSize)
              offs == {k \in 0..(Len(w) - 1) : w[k + 1] \in {".", "?", "!", "\n"}}
              last == windows'[Len(windows')]
              emitted == SubSeq(text, last.from + 1, last.to)
          IN  /\ chunks'[Len(chunks')] = Trim(emitted)
              /\ IF /\ start + chunkSize < Len(text)
                    /\ offs # {}
                    /\ 2 * MaxOf(offs) > chunkSize
                 THEN emitted = SubSeq(w, 1, MaxOf(offs) + 1)
                 ELSE emitted = w]_vars

\* C22 witness: a window that did not reach end-of-text and held a break
\* character past its midpoint was cut short just after it.
C22_Witness ==
    \E i \in 1..Len(windows) :
        /\ windows[i].from + chunkSize < Len(text)
        /\ windows[i].to - windows[i].from < chunkSize
        /\ 2 * (windows[i].to - windows[i].from - 1) > chunkSize
        /\ text[windows[i].to] \in {".", "\n"}

----------------------------------------------------------------------------
\* Citation numbering.  A text is a sequence of tokens: the literal openers
\* "[Source:" and "[Knowledge Graph:" are one token each (neither can overlap
\* itself or the other), every other character is its own token.

SRC == "[Source:"
KG == "[Knowledge Graph:"

\* \s of the patterns
IsWs(c) == c \in {" ", "\n", "\t", "\r"}

NoMatch == [end |-> 0, label |-> <<>>]

\* First index k >= j that is past the text or holds no whitespace.
RECURSIVE WsEnd(_, _)
WsEnd(t, j) == IF j > Len(t) \/ ~IsWs(t[j]) THEN j ELSE WsEnd(t, j + 1)

\* First index m >= k with t[m] = "]", 0 if there is none.
RECURSIVE FirstClose(_, _)
FirstClose(t, k) ==
    IF k > Len(t) THEN 0 ELSE IF t[k] = "]" THEN k ELSE FirstClose(t, k + 1)

\* Mutant of PatternMatch: the label group is ([^\]]*), so an empty label matches.
PatternMatchEmptyLabel(t, i, open) ==
    IF t[i] # open THEN NoMatch
    ELSE LET k == WsEnd(t, i + 1)
             m == FirstClose(t, k)
         IN  IF m = 0 THEN NoMatch
             ELSE [end |-> m, label |-> SubSeq(t, k, m - 1)]

\* A match of /\[Source:\s*([^\]]+)\]/ (or the Knowledge Graph pattern)
\* anchored at index i: \s* is greedy and gives one whitespace back to the
\* label group when "]" follows the whitespace directly.
PatternMatch(t, i, open) ==
    IF t[i] # open THEN NoMatch
    ELSE LET k == WsEnd(t, i + 1)
             m == FirstClose(t, k)
         IN  IF m = 0 THEN NoMatch
             ELSE IF m > k THEN [end |-> m, label |-> SubSeq(t, k, m - 1)]
             ELSE IF k > i + 1 THEN [end |-> m, label |-> SubSeq(t, k - 1, k - 1)]
             ELSE NoMatch

\* The successive results of pattern.exec(text) from index pos on, as
\* [at, end, label] records: leftmost matches, each search resuming after
\* the previous match (lastIndex).
RECURSIVE ExecAll(_, _, _)
ExecAll(t, pos, open) ==
    IF pos > Len(t) THEN <<>>
    ELSE LET m == PatternMatch(t, pos, open)
         IN  IF m.end = 0 THEN ExecAll(t, pos + 1, open)
             ELSE <<[at |-> pos, end |-> m.end, label |-> m.label]>>
                  \o ExecAll(t, m.end + 1, open)

\* Decimal digits of a reference number, one token per digit.
Digits == <<"0", "1", "2", "3", "4", "5", "6", "7", "8", "9">>
RECURSIVE NumToks(_)
NumToks(n) == IF n < 10 THEN <<Digits[n + 1]>>
              ELSE NumToks(n \div 10) \o <<Digits[(n % 10) + 1]>>

\* `[${index}]`
RefToks(n) == <<"[">> \o NumToks(n) \o <<"]">>

\* ---- response.tsx: processCitations ----

\* citationMap is a JavaScript Map: a sequence of [key, value] entries in
\* insertion order.
MapHas(map, key) == \E e \in 1..Len(map) : map[e].key = key
MapGet(map, key) ==
    IF MapHas(map, key)
    THEN map[CHOOSE e \in 1..Len(map) : map[e].key = key].value
    ELSE 0
MapSet(map, key, value) ==
    IF MapHas(map, key)
    THEN [e \in 1..Len(map) |->
             IF map[e].key = key THEN [key |-> key, value |-> value] ELSE map[e]]
    ELSE Append(map, [key |-> key, value |-> value])

\* Mutant of Register: the citationMap.has test is missing.
RegisterAlways(st, name) ==
    [citationMap |-> MapSet(st.citationMap, name, st.citationIndex),
     citationIndex |-> st.citationIndex + 1,
     sources |-> Append(st.sources, name)]

\* The body of both scan loops:
\*   if (!citationMap.has(name)) { citationMap.set(name, citationIndex++); sources.push(name) }
Register(st, name) ==
    IF MapHas(st.citationMap, name) THEN st
    ELSE [citationMap |-> MapSet(st.citationMap, name, st.citationIndex),
          citationIndex |-> st.citationIndex + 1,
          sources |-> Append(st.sources, name)]

RECURSIVE RegisterAll(_, _, _)
RegisterAll(st, ms, k) ==
    IF k > Len(ms) THEN st ELSE RegisterAll(Register(st, ms[k].label), ms, k + 1)

\* The two scan loops: all Source markers first, then all Knowledge Graph markers.
ScanCitations(t) ==
    LET st0 == [citationMap |-> <<>>, citationIndex |-> 1, sources |-> <<>>]
        st1 == RegisterAll(st0, ExecAll(t, 1, SRC), 1)
    IN  RegisterAll(st1, ExecAll(t, 1, KG), 1)

\* End index of a match of new RegExp(`\[Source:\s*${escaped name}\]`) anchored
\* at index i, 0 if there is none: opener, any whitespace, the literal name, "]".
LiteralMatchEnd(t, i, open, name) ==
    IF t[i] # open THEN 0
    ELSE LET n == Len(name)
             ws == {w \in 0..(Len(t) - i) :
                      /\ i + w + n + 1 <= Len(t)
                      /\ \A x \in (i + 1)..(i + w) : IsWs(t[x])
                      /\ SubSeq(t, i + w + 1, i + w + n) = name
                      /\ t[i + w + n + 1] = "]"}
         IN  IF ws = {} THEN 0 ELSE (CHOOSE w \in ws : TRUE) + i + n + 1

\* processedText.replace(regex, `[${index}]`) with the g flag.
RECURSIVE ReplaceAll(_, _, _, _, _)
ReplaceAll(t, pos, open, name, index) ==
    IF pos > Len(t) THEN <<>>
    ELSE LET e == LiteralMatchEnd(t, pos, open, name)
         IN  IF e = 0 THEN <<t[pos]>> \o ReplaceAll(t, pos + 1, open, name, index)
             ELSE RefToks(index) \o ReplaceAll(t, e + 1, open, name, index)

\* citationMap.forEach: per entry, the Source replacement, then the Knowledge
\* Graph replacement.
RECURSIVE ReplaceEntries(_, _, _)
ReplaceEntries(t, map, e) ==
    IF e > Len(map) THEN t
    ELSE LET t1 == ReplaceAll(t, 1, SRC, map[e].key, map[e].value)
             t2 == ReplaceAll(t1, 1, KG, map[e].key, map[e].value)
         IN  ReplaceEntries(t2, map, e + 1)

processCitations(t) ==
    LET st == ScanCitations(t)
    IN  IF Len(st.sources) = 0
        THEN [processedText |-> t, sources |-> <<>>, citationMap |-> <<>>]
        ELSE [processedText |-> ReplaceEntries(t, st.citationMap, 1),
              sources |-> st.sources, citationMap |-> st.citationMap]

\* children.includes('[Source:') || children.includes('[Knowledge Graph:')
HasOpener(t) == \E i \in 1..Len(t) : t[i] \in {SRC, KG}

\* ---- citation-processor.tsx: processTextWithCitations ----

\* sources.indexOf(name): 0-based, -1 if absent
IndexOf(seq, x) ==
    LET hits == {i \in 1..Len(seq) : seq[i] = x}
    IN  IF hits = {} THEN -1
        ELSE (CHOOSE i \in hits : \A j \in hits : i <= j) - 1

\* The loop over the matches; parts holds text slices [cite |-> FALSE] and
\* Citation elements [cite |-> TRUE, text |-> source, index |-> citationIndex].
RECURSIVE ProcessParts(_, _, _, _)
ProcessParts(t, ms, k, st) ==
    IF k > Len(ms)
    THEN [sources |-> st.sources,
          parts |-> IF st.lastIndex < Len(t)
                    THEN Append(st.parts, [cite |-> FALSE,
                                           text |-> SubSeq(t, st.lastIndex + 1, Len(t)),
                                           index |-> 0])
                    ELSE st.parts]
    ELSE LET m == ms[k]
             sourceIndex == IndexOf(st.sources, m.label)
             srcs == IF sourceIndex = -1 THEN Append(st.sources, m.label) ELSE st.sources
             citationIndex == IF sourceIndex = -1 THEN Len(srcs) ELSE sourceIndex + 1
             before == IF m.at - 1 > st.lastIndex
                       THEN Append(st.parts, [cite |-> FALSE,
                                              text |-> SubSeq(t, st.lastIndex + 1, m.at - 1),
                                              index |-> 0])
                       ELSE st.parts
         IN  ProcessParts(t, ms, k + 1,
                 [sources |-> srcs,
                  parts |-> Append(before, [cite |-> TRUE, text |-> m.label,
                                            index |-> citationIndex]),
                  lastIndex |-> m.end])

\* content is parts, or the text itself when parts is empty (the empty text),
\* which is the one part-less content.
processTextWithCitations(t) ==
    ProcessParts(t, ExecAll(t, 1, SRC), 1,
                 [sources |-> <<>>, parts |-> <<>>, lastIndex |-> 0])

\* renderTextWithCitations: the original text when no source was found
renderTextWithCitations(t) ==
    LET r == processTextWithCitations(t)
    IN  IF Len(r.sources) = 0
        THEN [plain |-> TRUE, text |-> t, parts |-> <<>>, sources |-> <<>>]
        ELSE [plain |-> FALSE, text |-> <<>>, parts |-> r.parts, sources |-> r.sources]

\* ---- the renderers as a state machine ----

CiteAlphabet == {SRC, KG, "]", "A", " "}
NestAlphabet == {SRC, "]", "A", "a"}

\* Texts made of well-formed markers of both kinds only, up to n of them
RECURSIVE MarkerTexts(_)
MarkerTexts(n) ==
    IF n = 0 THEN {<<>>}
    ELSE LET shorter == MarkerTexts(n - 1)
         IN  shorter \cup {t \o <<open, label, "]">> :
                              t \in shorter, open \in {SRC, KG}, label \in {"A", "B"}}

CiteInit ==
    /\ citeText \in SeqsUpTo(CiteAlphabet, MaxCiteLen) \cup SeqsUpTo(NestAlphabet, MaxNestLen)
                     \cup MarkerTexts(MaxMarkers)
    /\ citePass = 0
    /\ respDone = FALSE /\ respOut = NoResponse
    /\ rtcDone = FALSE /\ rtcOut = NoRender
    /\ ChunkIdle
    /\ IngestIdle
    /\ AuxIdle

\* Response renders citeText: processCitations runs only when the text
\* includes an opener, otherwise the text is rendered as it is.
RenderResponse ==
    /\ ~respDone
    /\ respOut' = IF HasOpener(citeText) THEN processCitations(citeText)
                  ELSE [processedText |-> citeText, sources |-> <<>>, citationMap |-> <<>>]
    /\ respDone' = TRUE
    /\ UNCHANGED <<citeText, citePass, rtcDone, rtcOut>>
    /\ UNCHANGED <<chunkVars, ingestVars, auxVars>>

\* renderTextWithCitations(citeText)
RenderTextWithCitations ==
    /\ ~rtcDone
    /\ rtcOut' = renderTextWithCitations(citeText)
    /\ rtcDone' = TRUE
    /\ UNCHANGED <<citeText, citePass, respDone, respOut>>
    /\ UNCHANGED <<chunkVars, ingestVars, auxVars>>

\* The numbered output is rendered again as a new answer text.
RenderAgain ==
    /\ respDone
    /\ citePass < MaxPasses
    /\ citeText' = respOut.processedText
    /\ citePass' = citePass + 1
    /\ respDone' = FALSE /\ respOut' = NoResponse
    /\ rtcDone' = FALSE /\ rtcOut' = NoRender
    /\ UNCHANGED <<chunkVars, ingestVars, auxVars>>

CiteNext == RenderResponse \/ RenderTextWithCitations \/ RenderAgain

SpecCite == CiteInit /\ [][CiteNext]_vars

\* ---- properties of citation numbering ----

\* A substring of t matches the marker pattern of opener open: the opener,
\* at least one character other than "]", then "]".
HasMarker(t, open) ==
    \E i \in 1..Len(t) : \E j \in (i + 2)..Len(t) :
        /\ t[i] = open
        /\ t[j] = "]"
        /\ \A x \in (i + 1)..(j - 1) : t[x] # "]"

\* The distinct elements of a sequence in first-occurrence order.
RECURSIVE Distinct(_)
Distinct(seq) ==
    IF seq = <<>> THEN <<>>
    ELSE LET front == Distinct(SubSeq(seq, 1, Len(seq) - 1))
             last == seq[Len(seq)]
         IN  IF \E i \in 1..Len(front) : front[i] = last THEN front
             ELSE Append(front, last)

\* The labels of the Source markers of t, in scan order.
SourceLabels(t) ==
    LET ms == ExecAll(t, 1, SRC) IN [k \in 1..Len(ms) |-> ms[k].label]

\* 1-based rank of the first occurrence of label among the Source labels of t.
FirstRank(t, label) == IndexOf(Distinct(SourceLabels(t)), label) + 1

\* t with each Source marker of the left-to-right scan replaced by [n], n the
\* first-occurrence rank of its label.
RECURSIVE NumberedFrom(_, _, _, _)
NumberedFrom(t, ms, k, pos) ==
    IF k > Len(ms) THEN SubSeq(t, pos, Len(t))
    ELSE SubSeq(t, pos, ms[k].at - 1) \o RefToks(FirstRank(t, ms[k].label))
         \o NumberedFrom(t, ms, k + 1, ms[k].end + 1)
Numbered(t) == NumberedFrom(t, ExecAll(t, 1, SRC), 1, 1)

\* C4 (as claimed), on texts without a Knowledge Graph opener: the processed
\* text is the text with every Source marker of the single left-to-right scan
\* replaced by [n], n the first-occurrence rank of its label, and the source
\* list is the distinct labels in first-occurrence order.
C4_MarkersNumberedByFirstOccurrence ==
    (respDone /\ \A i \in 1..Len(citeText) : citeText[i] # KG) =>
        /\ respOut.processedText = Numbered(citeText)
        /\ respOut.sources = Distinct(SourceLabels(citeText))

\* C5: the numbers the scans assign: two Source markers get the same number
\* exactly if their labels are the same string, every marker's label has a
\* number and its entry in the source list, "A" and "a" are told apart, and no
\* label is listed twice; in both renderers.
C5_SameNumberIffSameLabel ==
    /\ respDone =>
         LET labels == SourceLabels(citeText)
             number(l) == MapGet(respOut.citationMap, l)
         IN  /\ \A i, j \in 1..Len(labels) :
                   (number(labels[i]) = number(labels[j])) <=> (labels[i] = labels[j])
             /\ \A i \in 1..Len(labels) :
                   /\ number(labels[i]) \in 1..Len(respOut.sources)
                   /\ respOut.sources[number(labels[i])] = labels[i]
             /\ \A x, y \in 1..Len(respOut.sources) :
                   respOut.sources[x] = respOut.sources[y] => x = y
    /\ rtcDone =>
         LET cites == SelectSeq(rtcOut.parts, LAMBDA q : q.cite)
         IN  /\ \A i, j \in 1..Len(cites) :
                   (cites[i].index = cites[j].index) <=> (cites[i].text = cites[j].text)
             /\ \A i \in 1..Len(cites) :
                   /\ cites[i].index \in 1..Len(rtcOut.sources)
                   /\ rtcOut.sources[cites[i].index] = cites[i].text
             /\ \A x, y \in 1..Len(rtcOut.sources) :
                   rtcOut.sources[x] = rtcOut.sources[y] => x = y

\* C5 witness: both renderers have run on a text that cites two labels
\* differing only in letter case.
C5_Witness ==
    /\ respDone /\ rtcDone
    /\ \E i, j \in 1..Len(SourceLabels(citeText)) :
          /\ SourceLabels(citeText)[i] = <<"A">>
          /\ SourceLabels(citeText)[j] = <<"a">>

\* C6 (as claimed), on texts without a Knowledge Graph opener: the processed
\* text holds no substring matching the marker pattern, and processing it
\* again returns it unchanged.
C6_OutputHasNoMarker ==
    (respDone /\ \A i \in 1..Len(citeText) : citeText[i] # KG) =>
        /\ ~HasMarker(respOut.processedText, SRC)
        /\ processCitations(respOut.processedText).processedText = respOut.processedText

\* C7 (as claimed): a text without a [Source: ...] marker is returned unchanged
\* with an empty source list.
C7_NoSourceMarkerNoChange ==
    (respDone /\ ~HasMarker(citeText, SRC)) =>
        /\ respOut.processedText = citeText
        /\ respOut.sources = <<>>

\* C7 (amended): a text with neither a [Source: ...] nor a [Knowledge
\* Graph: ...] marker is returned unchanged with an empty source list by the
\* response renderer; renderTextWithCitations returns the original text
\* whenever it has no [Source: ...] marker.
C7_NoMarkerNoChange ==
    /\ (respDone /\ ~HasMarker(citeText, SRC) /\ ~HasMarker(citeText, KG)) =>
          /\ respOut.processedText = citeText
          /\ respOut.sources = <<>>
    /\ (rtcDone /\ ~HasMarker(citeText, SRC)) =>
          /\ rtcOut.plain
          /\ rtcOut.text = citeText
          /\ rtcOut.sources = <<>>

\* C7 witness: both renderers have run on a marker-free text that still holds
\* an opener and a closing bracket.
C7_Witness ==
    /\ respDone /\ rtcDone
    /\ ~HasMarker(citeText, SRC) /\ ~HasMarker(citeText, KG)
    /\ \E i, j \in 1..Len(citeText) : i < j /\ citeText[i] = SRC /\ citeText[j] = "]"

\* C29 (as claimed): in the response renderer a Knowledge Graph marker that
\* occurs before the first Source marker, with another label, gets a smaller
\* number than that Source marker's label and precedes it in the source list.
C29_NumberedByFirstOccurrenceAcrossKinds ==
    respDone =>
        LET srcs == ExecAll(citeText, 1, SRC)
            kgs == ExecAll(citeText, 1, KG)
            number(l) == MapGet(respOut.citationMap, l)
        IN  \A k \in 1..Len(kgs) :
                (Len(srcs) > 0 /\ kgs[k].at < srcs[1].at /\ kgs[k].label # srcs[1].label) =>
                    /\ number(kgs[k].label) < number(srcs[1].label)
                    /\ IndexOf(respOut.sources, kgs[k].label)
                           < IndexOf(respOut.sources, srcs[1].label)

----------------------------------------------------------------------------
\* processDocumentForRAG({title, content, chunks, source, metadata, userId})

\* Characters of a chunk: "NUL" stands for \x00, "BEL" for \x07 (a control
\* character of [\x00-\x08\x0B\x0C\x0E-\x1F\x7F]); the others are themselves.
IsControl(c) == c \in {"NUL", "BEL"}

\* chunk.replace(/\0/g, '').replace(/[\x00-\x08\x0B\x0C\x0E-\x1F\x7F]/g, '').trim()
CleanChunk(chunk) == Trim(SelectSeq(chunk, LAMBDA c : ~IsControl(c)))

\* embedding.length !== 1536
EmbeddingDim == 1536

\* The one document of the call (gen_random_uuid of RagDocument.id)
DocId == 1

NoEmbedding == [isArray |-> FALSE, length |-> 0, of |-> 0]

\* What the embedding service may answer for chunk k: a non-success response,
\* or a body whose data[0].embedding is a vector of 1536 scalars, a vector of
\* another length, or no array at all.
Responses(k) ==
    {[ok |-> FALSE, embedding |-> NoEmbedding]} \cup
    {[ok |-> TRUE, embedding |-> [isArray |-> a, length |-> n, of |-> k]] :
        a \in {TRUE}, n \in {EmbeddingDim, EmbeddingDim - 1}} \cup
    {[ok |-> TRUE, embedding |-> [isArray |-> FALSE, length |-> 0, of |-> k]]}

\* Mutant of ValidEmbedding: the length test is missing.
ValidEmbeddingAnyLength(e) == e.isArray

\* !(!embedding || !Array.isArray(embedding) || embedding.length !== 1536)
ValidEmbedding(e) == e.isArray /\ e.length = EmbeddingDim

\* Mutant of TaskAfterEmbedding: the content check of the cleaned chunk is
\* missing.
TaskAfterEmbeddingNoContentCheck(chunk, resp) ==
    IF ~resp.ok THEN "serviceError"
    ELSE IF ~ValidEmbedding(resp.embedding) THEN "invalidEmbedding"
    ELSE "saving"

\* Where the task of a chunk stands after generateEmbedding has answered:
\* it threw (non-success response), the validation threw, the content check
\* threw, or saveRagChunk was called.
TaskAfterEmbedding(chunk, resp) ==
    IF ~resp.ok THEN "serviceError"
    ELSE IF ~ValidEmbedding(resp.embedding) THEN "invalidEmbedding"
    ELSE IF Len(CleanChunk(chunk)) = 0 THEN "emptyContent"
    ELSE "saving"

\* Mutant of Rejected: a non-success response of the embedding service is
\* swallowed by the task instead of rejecting it.
RejectedUnlessServiceError(pc) == pc \in {"invalidEmbedding", "emptyContent", "storeError"}

Rejected(pc) == pc \in {"serviceError", "invalidEmbedding", "emptyContent", "storeError"}

\* Mutant of ChunkRow: the index is the number of rows written so far, so it
\* follows the completion order of the tasks.
ChunkRowByCompletion(k) ==
    [documentId |-> DocId,
     content |-> CleanChunk(chunksIn[k]),
     embedding |-> embResult[k],
     chunkIndex |-> NumToks(Cardinality(ragChunks)),
     chunkLength |-> Len(CleanChunk(chunksIn[k]))]

\* The row saveRagChunk writes for chunk k (1-based; chunkIndex is i + batchIndex)
ChunkRow(k) ==
    [documentId |-> DocId,
     content |-> CleanChunk(chunksIn[k]),
     embedding |-> embResult[k],
     chunkIndex |-> NumToks(k - 1),
     chunkLength |-> Len(CleanChunk(chunksIn[k]))]

\* chunks.slice(i, i + batchSize): the 1-based positions of the batch at i
Batch(i) == {k \in 1..Len(chunksIn) : i < k /\ k <= i + BatchSize}

\* Mutant of StartBatch: the tasks of the following batch are started along
\* with those of the batch at i.
StartBatchAndNext(i) ==
    [k \in 1..Len(chunksIn) |->
        IF k \in Batch(i) \cup Batch(i + BatchSize) THEN "embedding" ELSE taskPc[k]]

\* batch.map(async ...): every task of the batch runs up to its
\* await generateEmbedding(chunk)
StartBatch(i) == [k \in 1..Len(chunksIn) |-> IF k \in Batch(i) THEN "embedding" ELSE taskPc[k]]

\* Mutant of ChunksAfterReject: the failing call deletes what it wrote.
ChunksAfterRejectRollback(rows) == {}

\* The rows left when await Promise.all(chunkPromises) rejects: the rejection
\* leaves processDocumentForRAG, which has no catch and deletes nothing.
ChunksAfterReject(rows) == rows

ChunkTexts == {<<"a">>, <<"a", "BEL", " ">>, <<"NUL", " ">>}

\* Mutant of IngestInit: the tasks of the first batch issue their embedding
\* requests while saveRagDocument is still awaited.
IngestInitEmbeddingFirst ==
    /\ chunksIn \in SeqsUpTo(ChunkTexts, MaxChunks)
    /\ mainPc = "savingDoc"
    /\ batchStart = 0
    /\ taskPc = [k \in 1..Len(chunksIn) |-> IF k <= BatchSize THEN "embedding" ELSE "none"]
    /\ embResult = [k \in 1..Len(chunksIn) |-> NoEmbedding]
    /\ ragDocuments = {}
    /\ ragChunks = {}
    /\ ChunkIdle
    /\ CiteIdle
    /\ AuxIdle

IngestInit ==
    /\ chunksIn \in SeqsUpTo(ChunkTexts, MaxChunks)
    /\ mainPc = "savingDoc"
    /\ batchStart = 0
    /\ taskPc = [k \in 1..Len(chunksIn) |-> "none"]
    /\ embResult = [k \in 1..Len(chunksIn) |-> NoEmbedding]
    /\ ragDocuments = {}
    /\ ragChunks = {}
    /\ ChunkIdle
    /\ CiteIdle
    /\ AuxIdle

\* await saveRagDocument(...) settles; on success the batch loop starts and
\* the tasks of the first batch issue their embedding requests.
SaveDocumentDone ==
    /\ mainPc = "savingDoc"
    /\ \E ok \in BOOLEAN :
         IF ok
         THEN /\ ragDocuments' = ragDocuments \cup {DocId}
              /\ IF Len(chunksIn) = 0
                 THEN mainPc' = "returned" /\ UNCHANGED taskPc
                 ELSE mainPc' = "awaitAll" /\ taskPc' = StartBatch(0)
         ELSE /\ mainPc' = "failed"
              /\ UNCHANGED <<ragDocuments, taskPc>>
    /\ UNCHANGED <<chunksIn, batchStart, embResult, ragChunks>>
    /\ UNCHANGED <<chunkVars, citeVars, auxVars>>

\* The embedding request of chunk k settles and its task runs on to its throw
\* or to its saveRagChunk call.  A throw rejects Promise.all, and with it the
\* call, if the call still awaits it.
EmbedReturn(k) ==
    /\ taskPc[k] = "embedding"
    /\ \E resp \in Responses(k) :
         LET pc == TaskAfterEmbedding(chunksIn[k], resp)
             fails == Rejected(pc) /\ mainPc = "awaitAll"
         IN  /\ taskPc' = [taskPc EXCEPT ![k] = pc]
             /\ embResult' = [embResult EXCEPT ![k] = resp.embedding]
             /\ mainPc' = IF fails THEN "failed" ELSE mainPc
             /\ ragChunks' = IF fails THEN ChunksAfterReject(ragChunks) ELSE ragChunks
    /\ UNCHANGED <<chunksIn, batchStart, ragDocuments>>
    /\ UNCHANGED <<chunkVars, citeVars, auxVars>>

\* The outcomes of an insert into RagChunk: it succeeds or fails, and
\* RagChunk_documentId_RagDocument_id_fk makes it fail when the row's
\* documentId is the id of no RagDocument row.
InsertOutcomes(documentId, docs) == IF documentId \in docs THEN BOOLEAN ELSE {FALSE}

\* saveRagChunk of chunk k settles.  The last success of a batch resolves
\* Promise.all and the call goes on to its 100 ms delay.
SaveChunkDone(k) ==
    /\ taskPc[k] = "saving"
    /\ \E ok \in InsertOutcomes(ChunkRow(k).documentId, ragDocuments) :
         IF ok
         THEN /\ ragChunks' = ragChunks \cup {ChunkRow(k)}
              /\ taskPc' = [taskPc EXCEPT ![k] = "saved"]
              /\ mainPc' = IF mainPc = "awaitAll"
                              /\ \A j \in Batch(batchStart) \ {k} : taskPc[j] = "saved"
                           THEN "delay" ELSE mainPc
         ELSE /\ taskPc' = [taskPc EXCEPT ![k] = "storeError"]
              /\ mainPc' = IF mainPc = "awaitAll" THEN "failed" ELSE mainPc
              /\ ragChunks' = IF mainPc = "awaitAll" THEN ChunksAfterReject(ragChunks)
                              ELSE ragChunks
    /\ UNCHANGED <<chunksIn, batchStart, embResult, ragDocuments>>
    /\ UNCHANGED <<chunkVars, citeVars, auxVars>>

\* The delay between batches ends: i += batchSize, then the next batch
\* starts or the document is returned.
DelayElapsed ==
    /\ mainPc = "delay"
    /\ batchStart' = batchStart + BatchSize
    /\ IF batchStart + BatchSize < Len(chunksIn)
       THEN mainPc' = "awaitAll" /\ taskPc' = StartBatch(batchStart + BatchSize)
       ELSE mainPc' = "returned" /\ UNCHANGED taskPc
    /\ UNCHANGED <<chunksIn, embResult, ragDocuments, ragChunks>>
    /\ UNCHANGED <<chunkVars, citeVars, auxVars>>

IngestNext ==
    \/ SaveDocumentDone
    \/ \E k \in 1..Len(chunksIn) : EmbedReturn(k)
    \/ \E k \in 1..Len(chunksIn) : SaveChunkDone(k)
    \/ DelayElapsed

SpecIngest == IngestInit /\ [][IngestNext]_vars

\* ---- properties of processDocumentForRAG ----

\* Chunk k has a row in RagChunk.
Persisted(k) == \E row \in ragChunks : row.chunkIndex = NumToks(k - 1)

\* The 0-based number of the batch of chunk k.
BatchOf(k) == (k - 1) \div BatchSize

\* The task of chunk k has received an embedding from the service.
Received(k) == taskPc[k] \in {"invalidEmbedding", "emptyContent", "saving", "saved", "storeError"}

\* C8 (as claimed): if a passage of a batch fails the dimensionality
\* validation, no passage of that batch is persisted.
C8_NoPartialBatchPersistence ==
    \A k \in 1..Len(taskPc) :
        taskPc[k] = "invalidEmbedding" =>
            \A j \in 1..Len(taskPc) : BatchOf(j) = BatchOf(k) => ~Persisted(j)

\* C9: a passage whose embedding result is not an array of exactly 1536
\* scalars is not persisted, the call that produced it has failed and has not
\* returned a Document; every persisted row holds an array of 1536 scalars.
C9_InvalidEmbeddingNeverPersisted ==
    /\ \A k \in 1..Len(taskPc) :
          (Received(k) /\ ~(embResult[k].isArray /\ embResult[k].length = 1536)) =>
              /\ ~Persisted(k)
              /\ mainPc = "failed"
    /\ \A row \in ragChunks : row.embedding.isArray /\ row.embedding.length = 1536

\* C9 witness: a passage got a vector of the wrong length, the call has failed,
\* and a sibling passage with a valid vector is in the store.
C9_Witness ==
    /\ mainPc = "failed"
    /\ \E k \in 1..Len(taskPc) :
          /\ taskPc[k] = "invalidEmbedding"
          /\ embResult[k].isArray
          /\ embResult[k].length # 1536
    /\ ragChunks # {}

\* C10: a rejected task fails the call as a whole, and neither the failing
\* step nor any later step removes the Document row or a passage row: no
\* rollback.
C10_FailureWithoutRollback ==
    /\ [](\A k \in 1..Len(taskPc) : Rejected(taskPc[k]) => mainPc = "failed")
    /\ [][(mainPc' = "failed") =>
             (ragDocuments \subseteq ragDocuments' /\ ragChunks \subseteq ragChunks')]_vars

\* C10 witness: the call has failed in a later batch, with the Document row
\* and the passages of the first batch in the store.
C10_Witness ==
    /\ mainPc = "failed"
    /\ batchStart >= BatchSize
    /\ DocId \in ragDocuments
    /\ \A k \in Batch(0) : Persisted(k)
    /\ \E k \in Batch(batchStart) : Rejected(taskPc[k])

\* C11: a non-success response of the embedding service for a passage fails
\* the call, the call stays failed, and no task of a later batch has issued
\* (or ever issues) an embedding request.
C11_ServiceErrorAbortsIngestion ==
    /\ [](\A k \in 1..Len(taskPc) :
            taskPc[k] = "serviceError" =>
                /\ mainPc = "failed"
                /\ \A j \in 1..Len(taskPc) : BatchOf(j) > BatchOf(k) => taskPc[j] = "none")
    /\ [][mainPc = "failed" =>
             /\ mainPc' = "failed"
             /\ \A j \in 1..Len(taskPc) : taskPc[j] = "none" => taskPc'[j] = "none"]_vars

\* C11 witness: the service answered a passage of the first batch with a
\* non-success response while a later batch was still to come, and a sibling
\* of that batch has since been saved.
C11_Witness ==
    /\ mainPc = "failed"
    /\ Len(chunksIn) > BatchSize
    /\ \E k \in Batch(0) : taskPc[k] = "serviceError"
    /\ \E k \in Batch(0) : taskPc[k] = "saved"
    /\ \A j \in 1..Len(taskPc) : BatchOf(j) > 0 => taskPc[j] = "none"

\* The task of chunk k has an embedding request in flight.
InFlight(k) == taskPc[k] = "embedding"

\* The task of chunk k has started: it has issued its embedding request.
Started(k) == taskPc[k] # "none"

\* C23: batches run in index order and never overlap: a task of a later
\* batch has started only when every task of every earlier batch has
\* completed its embedding call and its passage write; the batch cursor only
\* moves forward by one batch; so at most BatchSize embedding requests of the
\* call are in flight.
C23_BatchesNeverOverlap ==
    /\ [](/\ \A j, k \in 1..Len(taskPc) :
               (BatchOf(j) > BatchOf(k) /\ Started(j)) =>
                   (taskPc[k] = "saved" /\ Persisted(k))
          /\ \A j \in 1..Len(taskPc) : Started(j) => BatchOf(j) * BatchSize <= batchStart
          /\ Cardinality({k \in 1..Len(taskPc) : InFlight(k)}) <= BatchSize)
    /\ [][batchStart' = batchStart \/ batchStart' = batchStart + BatchSize]_vars

\* C23 witness: a task of the second batch has its embedding request in
\* flight, after the whole first batch was written.
C23_Witness ==
    /\ mainPc = "awaitAll"
    /\ batchStart >= BatchSize
    /\ \E k \in Batch(batchStart) : InFlight(k)
    /\ \A k \in Batch(0) : Persisted(k)

\* C24: every persisted row carries the index of an input passage, the
\* (cleaned) content of that passage and the embedding the service computed
\* for that passage, in whatever order the tasks of a batch complete.
C24_RowPairsIndexContentEmbedding ==
    \A row \in ragChunks :
        \E k \in 1..Len(chunksIn) :
            /\ row.chunkIndex = NumToks(k - 1)
            /\ row.content = CleanChunk(chunksIn[k])
            /\ row.embedding.of = k

\* C24 witness: within one batch the second passage was written while the
\* first still waits for its embedding.
C24_Witness ==
    /\ Len(chunksIn) >= 2
    /\ InFlight(1)
    /\ taskPc[2] = "saved"
    /\ \E row \in ragChunks : row.chunkIndex = NumToks(1) /\ row.embedding.of = 2

\* C25: the Document row is in the store before any task has issued an
\* embedding request and before any passage row is written; while
\* saveRagDocument is awaited, and after it has failed, no task has started
\* and no passage row exists.
C25_DocumentPersistedFirst ==
    /\ (\E k \in 1..Len(taskPc) : Started(k)) => DocId \in ragDocuments
    /\ ragChunks # {} => DocId \in ragDocuments
    /\ (mainPc = "savingDoc" \/ DocId \notin ragDocuments) =>
           /\ \A k \in 1..Len(taskPc) : ~Started(k)
           /\ ragChunks = {}

\* C25 witness: saving the Document failed for a call with passages, and the
\* call has failed without any request or write.
C25_Witness ==
    /\ mainPc = "failed"
    /\ Len(chunksIn) > 0
    /\ DocId \notin ragDocuments
    /\ \A k \in 1..Len(taskPc) : ~Started(k)

\* C26 (as claimed): once the call has failed, no passage row is written any
\* more.
C26_NoWriteAfterFailure ==
    [][mainPc = "failed" => ragChunks' = ragChunks]_vars

\* C27: when the call has returned its Document for n passages, exactly n
\* rows are in the store, the indices 0..n-1 occur once each, and every row's
\* content is non-empty.
C27_ReturnedMeansAllPersisted ==
    mainPc = "returned" =>
        /\ Cardinality(ragChunks) = Len(chunksIn)
        /\ \A k \in 1..Len(chunksIn) :
              Cardinality({row \in ragChunks : row.chunkIndex = NumToks(k - 1)}) = 1
        /\ \A row \in ragChunks : Len(row.content) > 0 /\ row.documentId = DocId

\* C27 witness: a call with more passages than one batch has returned.
C27_Witness ==
    /\ mainPc = "returned"
    /\ Len(chunksIn) > BatchSize
    /\ Cardinality(ragChunks) = Len(chunksIn)

----------------------------------------------------------------------------
\* cleanText(text) of processDocumentForRAG, applied to title, content and
\* source.  Characters: "NUL" is \x00, "BEL" \x07, "DEL" \x7F, the others are
\* themselves.

\* char.charCodeAt(0) (every printable character counts as "a")
CharCode(c) ==
    CASE c = "NUL" -> 0
      [] c = "BEL" -> 7
      [] c = "\t" -> 9
      [] c = "\n" -> 10
      [] c = "\r" -> 13
      [] c = " " -> 32
      [] c = "DEL" -> 127
      [] OTHER -> 97

\* .replace(/\0/g, '')
RemoveNull(s) == SelectSeq(s, LAMBDA c : c # "NUL")

\* The filter: code >= 32 || code === 9 || code === 10 || code === 13
KeepsChar(c) == CharCode(c) >= 32 \/ CharCode(c) \in {9, 10, 13}

\* 1-based index of the first character of s that is no whitespace (Len(s) + 1
\* if there is none)
RECURSIVE WsEndOf(_)
WsEndOf(s) == IF s = <<>> \/ ~IsSpace(s[1]) THEN 1 ELSE 1 + WsEndOf(Tail(s))

\* .replace(/\s+/g, ' '): every maximal run of whitespace becomes one space
RECURSIVE CollapseWhitespace(_)
CollapseWhitespace(s) ==
    IF s = <<>> THEN <<>>
    ELSE IF ~IsSpace(s[1]) THEN <<s[1]>> \o CollapseWhitespace(Tail(s))
    ELSE LET k == WsEndOf(s) IN <<" ">> \o CollapseWhitespace(SubSeq(s, k, Len(s)))

\* const cleanedChunk of one block
CleanBlock(chunk) ==
    Trim(CollapseWhitespace(SelectSeq(RemoveNull(chunk), KeepsChar)))

\* chunks.join(' ')
RECURSIVE JoinBlocks(_)
JoinBlocks(blocks) ==
    IF blocks = <<>> THEN <<>>
    ELSE IF Len(blocks) = 1 THEN blocks[1]
    ELSE blocks[1] \o <<" ">> \o JoinBlocks(Tail(blocks))

CleanAlphabet == {"a", " ", "\t", "NUL", "BEL"}

CleanInit ==
    /\ cleanIn \in SeqsUpTo(CleanAlphabet, MaxCleanLen)
    /\ cleanI = 0
    /\ cleanBlocks = <<>>
    /\ cleanPc = "loop"
    /\ cleanOut = <<>>
    /\ ChunkIdle
    /\ CiteIdle
    /\ IngestIdle
    /\ UploadIdle
    /\ RestIdle

\* One iteration of the block loop: text.slice(i, i + chunkSize) is cleaned
\* and pushed.
CleanStep ==
    /\ cleanPc = "loop"
    /\ cleanI < Len(cleanIn)
    /\ cleanBlocks' = Append(cleanBlocks,
                             CleanBlock(Slice(cleanIn, cleanI, cleanI + CleanBlockSize)))
    /\ cleanI' = cleanI + CleanBlockSize
    /\ UNCHANGED <<cleanIn, cleanPc, cleanOut>>
    /\ UNCHANGED <<chunkVars, citeVars, ingestVars, uploadVars, restVars>>

\* The loop is over: the blocks are joined and returned.
CleanReturn ==
    /\ cleanPc = "loop"
    /\ ~(cleanI < Len(cleanIn))
    /\ cleanOut' = JoinBlocks(cleanBlocks)
    /\ cleanPc' = "done"
    /\ UNCHANGED <<cleanIn, cleanI, cleanBlocks>>
    /\ UNCHANGED <<chunkVars, citeVars, ingestVars, uploadVars, restVars>>

CleanNext == CleanStep \/ CleanReturn

SpecClean == CleanInit /\ [][CleanNext]_vars

\* C13 (as claimed): the cleaned text holds no null byte, no control character
\* below code 32 other than tab, LF and CR, and no two adjacent whitespace
\* characters, whatever the number of cleaning blocks.
C13_CleanedTextIsNormalised ==
    cleanPc = "done" =>
        /\ \A i \in 1..Len(cleanOut) :
              CharCode(cleanOut[i]) >= 32 \/ CharCode(cleanOut[i]) \in {9, 10, 13}
        /\ \A i \in 1..(Len(cleanOut) - 1) :
              ~(IsSpace(cleanOut[i]) /\ IsSpace(cleanOut[i + 1]))

----------------------------------------------------------------------------
\* POST of app/(chat)/api/rag/documents/route.ts: a PDF upload (multipart) or
\* a JSON body {title, content, source, metadata}.  The handler calls
\* chunkText and processDocumentForRAG, whose steps are the actions above.

\* A JSON value of the body's content field: a string, or the empty array
\* (request.json() does not restrict the type; [] is truthy and has length 0).
JsonString(cs) == [isString |-> TRUE, chars |-> cs]
JsonEmptyArray == [isString |-> FALSE, chars |-> <<>>]

\* !value of a JSON value: the empty string is falsy, an array is truthy
Falsy(v) == v.isString /\ Len(v.chars) = 0

\* Mutant of FieldsMissing: only the title is required.
TitleMissing(title, content) == Len(title) = 0

\* !title || !content
FieldsMissing(title, content) == Len(title) = 0 \/ Falsy(content)

\* heapUsagePercent > 95 (the request carries what process.memoryUsage() gives)
MemoryCritical(req) == req.critical

JsonContents ==
    {JsonString(<<>>), JsonString(<<"a">>), JsonString(<<"a", ".", " ", "a">>),
     JsonEmptyArray}

UploadRequests ==
    {[authed |-> a, kind |-> "pdf", file |-> f, title |-> <<>>,
      content |-> JsonString(<<>>), critical |-> c] :
        a \in BOOLEAN, f \in {"missing", "notPdf", "tooBig", "pdf"}, c \in BOOLEAN}
    \cup
    {[authed |-> a, kind |-> "json", file |-> "none", title |-> t,
      content |-> v, critical |-> c] :
        a \in BOOLEAN, t \in {<<>>, <<"t">>}, v \in JsonContents, c \in BOOLEAN}

\* What processPdf may settle with: {text, chunks, pageCount}, or an Error
\* whose message holds one of the substrings the handler looks for, or none.
PdfTexts == {<<>>, <<" ">>, <<"a">>, [i \in 1..(MinPdfTextLen + 1) |-> "a"]}
PdfChunks == {[content |-> c, tokens |-> Len(c), pageNumber |-> 1] : c \in ChunkTexts}
PdfErrors == {"timeout", "Invalid PDF", "too large or complex", "other"}
PdfResults ==
    {[ok |-> TRUE, error |-> "none", text |-> t, chunks |-> cs] :
        t \in PdfTexts, cs \in SeqsUpTo(PdfChunks, MaxChunks)}
    \cup {[ok |-> FALSE, error |-> e, text |-> <<>>, chunks |-> <<>>] : e \in PdfErrors}

\* The response of catch (pdfError), by the substrings of the message
PdfErrorResponse(error) ==
    CASE error = "timeout" -> "400 PDF processing timed out"
      [] error = "Invalid PDF" -> "400 Invalid PDF file format"
      [] error = "too large or complex" -> "413 PDF is too large or complex"
      [] OTHER -> "400 Failed to parse PDF"

\* The response after processPdf resolved, "none" if the handler goes on:
\* !content || !content.trim(), then content.trim().length < 10
PdfContentResponse(content) ==
    IF Len(Trim(content)) = 0 THEN "400 No text content found in PDF"
    ELSE IF Len(Trim(content)) < MinPdfTextLen
    THEN "400 PDF appears to contain very little text content"
    ELSE "none"

\* Mutant of ChunksFromPdf: the extracted text is chunked again as one passage.
ChunksFromText(pd) == <<pd.text>>

\* pdfData.chunks.map((chunk) => chunk.content)
ChunksFromPdf(pd) == [k \in 1..Len(pd.chunks) |-> pd.chunks[k].content]

UploadInit ==
    /\ upReq \in UploadRequests
    /\ upPc = "received"
    /\ upResponse = "none"
    /\ upTimer = "unset"
    /\ pdfData = NoPdfData
    /\ pdfTimedOut = FALSE
    /\ ChunkIdle
    /\ CiteIdle
    /\ IngestIdle
    /\ CleanIdle
    /\ RestIdle

\* if (!session?.user?.id) return 401
PostUnauthorized ==
    /\ upPc = "received"
    /\ ~upReq.authed
    /\ upResponse' = "401 Unauthorized"
    /\ upPc' = "responded"
    /\ UNCHANGED <<upReq, upTimer, pdfData, pdfTimedOut>>
    /\ UNCHANGED <<chunkVars, citeVars, ingestVars, cleanVars, restVars>>

\* The multipart branch up to await processPdf(file): the file checks, the
\* memory check, then the timer is set and the extraction starts.
PostPdf ==
    /\ upPc = "received"
    /\ upReq.authed
    /\ upReq.kind = "pdf"
    /\ LET rejection ==
             CASE upReq.file = "missing" -> "400 No file provided"
               [] upReq.file = "notPdf" -> "400 Only PDF files are supported"
               [] upReq.file = "tooBig" -> "400 File size must be less than 5MB"
               [] MemoryCritical(upReq) -> "503 Server is currently busy"
               [] OTHER -> "none"
       IN  IF rejection # "none"
           THEN /\ upResponse' = rejection
                /\ upPc' = "responded"
                /\ UNCHANGED upTimer
           ELSE /\ upTimer' = "armed"
                /\ upPc' = "extracting"
                /\ UNCHANGED upResponse
    /\ UNCHANGED <<upReq, pdfData, pdfTimedOut>>
    /\ UNCHANGED <<chunkVars, citeVars, ingestVars, cleanVars, restVars>>

\* The JSON branch up to await chunkText(content, 500, 100)
PostJson ==
    /\ upPc = "received"
    /\ upReq.authed
    /\ upReq.kind = "json"
    /\ IF FieldsMissing(upReq.title, upReq.content)
       THEN /\ upResponse' = "400 Title and content are required"
            /\ upPc' = "responded"
            /\ UNCHANGED chunkVars
       ELSE /\ upPc' = "chunking"
            /\ text' = upReq.content.chars
            /\ chunkSize' = RouteChunkSize
            /\ overlap' = RouteOverlap
            /\ start' = 0 /\ lastEnd' = -1
            /\ chunks' = <<>> /\ windows' = <<>>
            /\ processedChunks' = 0
            /\ chunkPc' = "loop"
            /\ chunkResult' = <<>>
            /\ UNCHANGED upResponse
    /\ UNCHANGED <<upReq, upTimer, pdfData, pdfTimedOut>>
    /\ UNCHANGED <<citeVars, ingestVars, cleanVars, restVars>>

\* await processPdf(file) settles.  Resolved: clearTimeout, then the content
\* checks.  Rejected: catch (pdfError) answers; the timer is not cleared.
ExtractDone ==
    /\ upPc = "extracting"
    /\ \E result \in PdfResults :
         /\ pdfData' = result
         /\ IF result.ok
            THEN /\ upTimer' = IF upTimer = "armed" THEN "cleared" ELSE upTimer
                 /\ upResponse' = PdfContentResponse(result.text)
                 /\ upPc' = IF PdfContentResponse(result.text) = "none"
                            THEN "extracted" ELSE "responded"
            ELSE /\ upResponse' = PdfErrorResponse(result.error)
                 /\ upPc' = "responded"
                 /\ UNCHANGED upTimer
    /\ UNCHANGED <<upReq, pdfTimedOut>>
    /\ UNCHANGED <<chunkVars, citeVars, ingestVars, cleanVars, restVars>>

\* processDocumentForRAG({title, content, chunks, ...}) is called: with the
\* chunks of processPdf on the PDF path, with what chunkText returned on the
\* JSON path.  The call runs up to its await saveRagDocument(...).
CallProcessDocument ==
    /\ \/ upReq.kind = "pdf" /\ upPc = "extracted"
       \/ upReq.kind = "json" /\ upPc = "chunking" /\ chunkPc = "done"
    /\ LET cs == IF upReq.kind = "pdf" THEN ChunksFromPdf(pdfData) ELSE chunkResult
       IN  /\ chunksIn' = cs
           /\ taskPc' = [k \in 1..Len(cs) |-> "none"]
           /\ embResult' = [k \in 1..Len(cs) |-> NoEmbedding]
    /\ mainPc' = "savingDoc"
    /\ batchStart' = 0
    /\ upPc' = "ingesting"
    /\ UNCHANGED <<ragDocuments, ragChunks>>
    /\ UNCHANGED <<upReq, upResponse, upTimer, pdfData, pdfTimedOut>>
    /\ UNCHANGED <<chunkVars, citeVars, cleanVars, restVars>>

\* await processDocumentForRAG(...) settles: the document is answered, or
\* the rejection is caught: by catch (pdfError) on the PDF path (none of its
\* substrings is in a pipeline error), by the outer catch on the JSON path.
ProcessDocumentSettled ==
    /\ upPc = "ingesting"
    /\ mainPc \in {"returned", "failed"}
    /\ upResponse' = IF mainPc = "returned" THEN "200 document"
                     ELSE IF upReq.kind = "pdf" THEN PdfErrorResponse("other")
                     ELSE "500 Failed to process document"
    /\ upPc' = "responded"
    /\ UNCHANGED <<upReq, upTimer, pdfData, pdfTimedOut>>
    /\ UNCHANGED <<chunkVars, citeVars, ingestVars, cleanVars, restVars>>

\* The 30 s of setTimeout pass before clearTimeout ran.  The callback throws
\* outside every try block and outside the promise of the handler: an
\* uncaught exception, which ends the process or, where an uncaughtException
\* handler is installed, is logged while the handler goes on.
TimerFires ==
    /\ upTimer = "armed"
    /\ upTimer' = "fired"
    /\ pdfTimedOut' = (upPc = "extracting")
    /\ \E exits \in BOOLEAN : upPc' = IF exits THEN "crashed" ELSE upPc
    /\ UNCHANGED <<upReq, upResponse, pdfData>>
    /\ UNCHANGED <<chunkVars, citeVars, ingestVars, cleanVars, restVars>>

UploadNext ==
    \/ PostUnauthorized
    \/ PostPdf
    \/ PostJson
    \/ ExtractDone
    \/ CallProcessDocument
    \/ ProcessDocumentSettled
    \/ TimerFires

SpecUpload == UploadInit /\ [][UploadNext \/ ChunkNext \/ IngestNext]_vars

\* ---- properties of the upload route ----

\* The content of the ingestion is the empty string: the content field of the
\* JSON body, or the text processPdf extracted.
EmptyContent ==
    \/ upReq.kind = "json" /\ upReq.content.isString /\ upReq.content.chars = <<>>
    \/ upReq.kind = "pdf" /\ pdfData.ok /\ pdfData.text = <<>>

\* C12: an ingestion whose content is the empty string never reaches
\* processDocumentForRAG, so neither saveRagDocument nor saveRagChunk is
\* called and nothing is stored, and an authenticated request is answered
\* with the invalid-content error of its path.
C12_EmptyContentFailsBeforePersistence ==
    EmptyContent =>
        /\ mainPc = "idle"
        /\ ragDocuments = {} /\ ragChunks = {}
        /\ upResponse # "200 document"
        /\ (upReq.authed /\ upPc = "responded" /\ upReq.kind = "json") =>
               upResponse = "400 Title and content are required"
        /\ (upPc = "responded" /\ upReq.kind = "pdf") =>
               upResponse = "400 No text content found in PDF"

\* C12 witness: an authenticated JSON request with a title and the empty
\* string as content has been answered.
C12_Witness ==
    /\ upReq.authed /\ upReq.kind = "json"
    /\ upReq.title # <<>>
    /\ upReq.content.isString /\ upReq.content.chars = <<>>
    /\ upPc = "responded"

\* C16 (as claimed): a request that arrives under critical memory pressure is
\* rejected before any extraction, chunking, embedding or persistence work
\* starts.
C16_CriticalMemoryRejectsEveryIngestion ==
    upReq.critical =>
        /\ upPc \in {"received", "responded"}
        /\ chunkPc = "idle"
        /\ mainPc = "idle"
        /\ ragDocuments = {}
        /\ upResponse # "200 document"

\* C17 (as claimed): once the 30 s have passed with processPdf still running,
\* the only answer the request gets is the processing-timed-out error; it is
\* never answered with a document.
C17_TimeoutReportedAsFailure ==
    pdfTimedOut => upResponse \in {"none", "400 PDF processing timed out"}

\* C19: on the PDF path chunkText is never invoked, the chunks handed to
\* processDocumentForRAG are the contents of the chunks of processPdf in the
\* same order and number, every stored passage is the cleaned content of
\* exactly one of them under its position, and a call that returned stored
\* one passage per chunk.
C19_PdfChunksUsedVerbatim ==
    upReq.kind = "pdf" =>
        /\ chunkPc = "idle" /\ processedChunks = 0
        /\ mainPc # "idle" =>
              /\ Len(chunksIn) = Len(pdfData.chunks)
              /\ \A k \in 1..Len(chunksIn) : chunksIn[k] = pdfData.chunks[k].content
        /\ \A row \in ragChunks :
              \E k \in 1..Len(pdfData.chunks) :
                  /\ row.chunkIndex = NumToks(k - 1)
                  /\ row.content = CleanChunk(pdfData.chunks[k].content)
        /\ \A r1, r2 \in ragChunks : r1.chunkIndex = r2.chunkIndex => r1 = r2
        /\ mainPc = "returned" => Cardinality(ragChunks) = Len(pdfData.chunks)

\* C19 witness: a PDF upload whose extraction gave more chunks than one batch,
\* with unlike contents, has been ingested and answered with its document.
C19_Witness ==
    /\ upReq.kind = "pdf"
    /\ Len(pdfData.chunks) > BatchSize
    /\ \E j, k \in 1..Len(pdfData.chunks) : pdfData.chunks[j].content # pdfData.chunks[k].content
    /\ mainPc = "returned"
    /\ upResponse = "200 document"

\* C28 (as claimed): the processing timer is cancelled on every path that
\* leaves PDF processing: once the request has been answered the timer is no
\* longer armed, so it cannot fire after the answer.
C28_TimerCancelledOnEveryPath ==
    upResponse # "none" => upTimer # "armed"

----------------------------------------------------------------------------
\* DELETE of app/(chat)/api/rag/documents/route.ts over the tables RagDocument
\* and RagChunk, next to an ingestion that is under way.

\* Another RagDocument row, of another user, with its passages
OtherDocId == 2
OtherRows ==
    {[documentId |-> OtherDocId,
      content |-> <<"a">>,
      embedding |-> [isArray |-> TRUE, length |-> EmbeddingDim, of |-> i],
      chunkIndex |-> NumToks(i - 1),
      chunkLength |-> 1] : i \in 1..2}

\* RagDocument.userId: the ingesting user owns the document of the call
DocOwner(id) == IF id = DocId THEN "u1" ELSE "u2"

\* deleteRagDocument({documentId, userId}): the ids of the rows it deletes
\* from RagDocument, the document if it exists and is the user's, else none
DeleteRagDocument(docs, id, userId) ==
    IF id \in docs /\ DocOwner(id) = userId THEN {id} ELSE {}

\* Mutant of CascadeDelete: the foreign key has no ON DELETE cascade.
NoCascadeDelete(rows, deleted) == rows

\* RagChunk_documentId_RagDocument_id_fk ... ON DELETE cascade: the RagChunk
\* rows left when the RagDocument rows of the ids in deleted are deleted
CascadeDelete(rows, deleted) == {r \in rows : r.documentId \notin deleted}

DeleteRequests ==
    {[authed |-> a, user |-> u, hasId |-> h, id |-> i] :
        a \in BOOLEAN, u \in {"u1", "u2"}, h \in BOOLEAN, i \in {DocId, OtherDocId}}

StoreInit ==
    /\ chunksIn \in SeqsUpTo(ChunkTexts, MaxChunks)
    /\ mainPc = "savingDoc"
    /\ batchStart = 0
    /\ taskPc = [k \in 1..Len(chunksIn) |-> "none"]
    /\ embResult = [k \in 1..Len(chunksIn) |-> NoEmbedding]
    /\ ragDocuments = {OtherDocId}
    /\ ragChunks = OtherRows
    /\ delResponse = "none"
    /\ ListIdle
    /\ ChunkIdle
    /\ CiteIdle
    /\ CleanIdle
    /\ UploadIdle
    /\ RetrievalIdle /\ SearchIdle /\ ChatIdle

\* One DELETE request, from the session check to the response.
DeleteDocument(req) ==
    /\ IF ~req.authed
       THEN /\ delResponse' = "401 Unauthorized"
            /\ UNCHANGED <<ragDocuments, ragChunks>>
       ELSE IF ~req.hasId
       THEN /\ delResponse' = "400 Document ID is required"
            /\ UNCHANGED <<ragDocuments, ragChunks>>
       ELSE \E throws \in BOOLEAN :
              IF throws
              THEN /\ delResponse' = "500 Failed to delete document"
                   /\ UNCHANGED <<ragDocuments, ragChunks>>
              ELSE LET deleted == DeleteRagDocument(ragDocuments, req.id, req.user)
                   IN  /\ ragDocuments' = ragDocuments \ deleted
                       /\ ragChunks' = CascadeDelete(ragChunks, deleted)
                       /\ delResponse' = IF deleted = {} THEN "404 Document not found"
                                         ELSE "200 success"
    /\ UNCHANGED <<chunksIn, mainPc, batchStart, taskPc, embResult>>
    /\ UNCHANGED <<chunkVars, citeVars, cleanVars, uploadVars>>
    /\ UNCHANGED <<listVars, retrievalVars, searchVars, chatVars>>

DeleteNext == \E req \in DeleteRequests : DeleteDocument(req)

SpecStore == StoreInit /\ [][IngestNext \/ DeleteNext]_vars

\* C18: every stored passage references a stored Document; a step that
\* removes a Document removes all of its passages, and a passage is removed
\* only in a step that removes its Document.
C18_PassagesFollowTheirDocument ==
    /\ [](\A row \in ragChunks : row.documentId \in ragDocuments)
    /\ [][/\ \A d \in ragDocuments \ ragDocuments' :
                \A row \in ragChunks' : row.documentId # d
          /\ \A row \in ragChunks \ ragChunks' :
                row.documentId \in ragDocuments \ ragDocuments']_vars

\* C18 witness: the document of the ingestion was deleted after passages of
\* it had been stored, a later insert for it has failed, and the other
\* document still has its passages.
C18_Witness ==
    /\ DocId \notin ragDocuments
    /\ \E k \in 1..Len(taskPc) : taskPc[k] = "saved"
    /\ \E k \in 1..Len(taskPc) : taskPc[k] = "storeError"
    /\ ragChunks = OtherRows
    /\ OtherDocId \in ragDocuments

----------------------------------------------------------------------------
\* RagDocumentsList of citation-processor.tsx: the listed documents, each
\* with a delete button, and the DELETE requests the component has sent.

\* disabled={deletingId === doc.id}
ButtonDisabled(d) == deletingId = d

\* What a DELETE request of the component may be answered with
DeleteOutcomes == {"ok", "401", "error"}

ListInit ==
    /\ documents \in SUBSET ListIds
    /\ deletingId = "null"
    /\ delInFlight = [d \in ListIds |-> 0]
    /\ delResponse = "none"
    /\ ChunkIdle /\ CiteIdle /\ IngestIdle
    /\ CleanIdle /\ UploadIdle
    /\ RetrievalIdle /\ SearchIdle /\ ChatIdle

\* onClick of the enabled button of a listed document: deleteDocument(doc.id)
\* runs up to its await fetch(..., {method: 'DELETE'}).
ClickDelete(d) ==
    /\ d \in documents
    /\ ~ButtonDisabled(d)
    /\ delInFlight[d] < MaxInFlight
    /\ deletingId' = d
    /\ delInFlight' = [delInFlight EXCEPT ![d] = @ + 1]
    /\ UNCHANGED documents
    /\ UNCHANGED <<chunkVars, citeVars, ingestVars, cleanVars, uploadVars>>
    /\ UNCHANGED <<delResponse, retrievalVars, searchVars, chatVars>>

\* The fetch of a deleteDocument(d) call settles: on an ok response the
\* document is filtered out of the list, on 401 or an error a toast is shown;
\* finally setDeletingId(null).
DeleteSettled(d) ==
    /\ delInFlight[d] > 0
    /\ \E outcome \in DeleteOutcomes :
         documents' = IF outcome = "ok" THEN documents \ {d} ELSE documents
    /\ deletingId' = "null"
    /\ delInFlight' = [delInFlight EXCEPT ![d] = @ - 1]
    /\ UNCHANGED <<chunkVars, citeVars, ingestVars, cleanVars, uploadVars>>
    /\ UNCHANGED <<delResponse, retrievalVars, searchVars, chatVars>>

ListNext ==
    \/ \E d \in ListIds : ClickDelete(d)
    \/ \E d \in ListIds : DeleteSettled(d)

SpecList == ListInit /\ [][ListNext]_vars

\* C30 (as claimed): while a delete request for a listed document is in
\* flight its button is disabled, whatever happens to the deletions of other
\* documents, and at most one delete request per document is in flight.
C30_ButtonDisabledWhileDeleting ==
    \A d \in ListIds :
        /\ (d \in documents /\ delInFlight[d] > 0) => ButtonDisabled(d)
        /\ delInFlight[d] <= 1

----------------------------------------------------------------------------
\* searchRelevantChunks({query, userId, limit, threshold}) and its callers.
\* Similarities and thresholds are in hundredths (30 is 0.3).  simStore holds
\* the stored passages in chunk order, each with its owner and its similarity
\* to the query of the request.

\* limit = 5, threshold = 0.3
DefaultLimit == 5
DefaultThreshold == 30

\* A destructuring default: the value given, else the default
OrDefault(v, default) == IF v.given THEN v.value ELSE default
Given(n) == [given |-> TRUE, value |-> n]

Similarities == {25, 30, 90}
StoredPassages == {[owner |-> o, similarity |-> x] : o \in {"u1", "u2"}, x \in Similarities}
Stores == SeqsUpTo(StoredPassages, MaxStored)

\* The passages of the store a search by userId sees and keeps: the user's
\* own (all if no userId is given) whose similarity is not below the threshold
Kept(store, userId, threshold) ==
    {i \in 1..Len(store) :
        /\ userId = "none" \/ store[i].owner = userId
        /\ store[i].similarity >= threshold}

\* The best of a non-empty set of passages: highest similarity, then lowest
\* position
Best(store, ids) ==
    CHOOSE i \in ids : \A j \in ids :
        \/ store[i].similarity > store[j].similarity
        \/ store[i].similarity = store[j].similarity /\ i <= j

RECURSIVE Ranked(_, _, _)
Ranked(store, ids, limit) ==
    IF ids = {} \/ limit <= 0 THEN <<>>
    ELSE LET b == Best(store, ids)
         IN  <<[id |-> b, similarity |-> store[b].similarity]>>
             \o Ranked(store, ids \ {b}, limit - 1)

\* searchSimilarChunks({embedding, limit, threshold, userId})
SearchSimilarChunks(store, args) ==
    Ranked(store, Kept(store, args.userId, args.threshold), args.limit)

\* searchRelevantChunks is called: up to await generateEmbedding(query)
StartRetrieval(args) ==
    /\ rvArgs' = args
    /\ rvPc' = "embedding"
    /\ rvResult' = <<>>
    /\ UNCHANGED simStore

\* await generateEmbedding(query) settles: on a non-success response it
\* throws and searchRelevantChunks rejects.
EmbedQueryDone ==
    /\ rvPc = "embedding"
    /\ \E ok \in BOOLEAN : rvPc' = IF ok THEN "searching" ELSE "rejected"
    /\ UNCHANGED <<simStore, rvArgs, rvResult>>
    /\ UNCHANGED <<chunkVars, citeVars, ingestVars, cleanVars, uploadVars>>
    /\ UNCHANGED <<deleteVars, searchVars, chatVars>>

\* await searchSimilarChunks(...) settles and its chunks are returned, or the
\* store fails and searchRelevantChunks rejects.
SearchSimilarDone ==
    /\ rvPc = "searching"
    /\ \E ok \in BOOLEAN :
         IF ok
         THEN /\ rvResult' = SearchSimilarChunks(simStore, rvArgs)
              /\ rvPc' = "resolved"
         ELSE /\ rvPc' = "rejected"
              /\ UNCHANGED rvResult
    /\ UNCHANGED <<simStore, rvArgs>>
    /\ UNCHANGED <<chunkVars, citeVars, ingestVars, cleanVars, uploadVars>>
    /\ UNCHANGED <<deleteVars, searchVars, chatVars>>

RetrievalNext == EmbedQueryDone \/ SearchSimilarDone

\* ---- POST of the search endpoint ----

SearchRequests ==
    {[authed |-> a, user |-> "u1", query |-> q, limit |-> l, threshold |-> t] :
        a \in BOOLEAN, q \in {<<>>, <<"q">>},
        l \in {Undefined, Given(1)}, t \in {Undefined, Given(0), Given(90)}}

\* Mutant of SearchResponse: an empty result is answered as not found.
SearchResponseNotFound(result) ==
    IF result = <<>> THEN [status |-> 404, chunks |-> <<>>]
    ELSE [status |-> 200, chunks |-> result]

\* NextResponse.json({ chunks })
SearchResponse(result) == [status |-> 200, chunks |-> result]

SearchInit ==
    /\ srchReq \in SearchRequests
    /\ srchPc = "received"
    /\ srchResponse = NoSearchResponse
    /\ simStore \in Stores
    /\ rvArgs = NoArgs /\ rvPc = "idle" /\ rvResult = <<>>
    /\ ChunkIdle /\ CiteIdle /\ IngestIdle
    /\ CleanIdle /\ UploadIdle
    /\ DeleteIdle /\ ChatIdle

\* if (!session?.user?.id) return 401
SearchUnauthorized ==
    /\ srchPc = "received"
    /\ ~srchReq.authed
    /\ srchResponse' = [status |-> 401, chunks |-> <<>>]
    /\ srchPc' = "responded"
    /\ UNCHANGED srchReq
    /\ UNCHANGED <<chunkVars, citeVars, ingestVars, cleanVars, uploadVars>>
    /\ UNCHANGED <<deleteVars, retrievalVars, chatVars>>

\* The body is read with its defaults; without a query the answer is 400,
\* else searchRelevantChunks is called.
SearchPost ==
    /\ srchPc = "received"
    /\ srchReq.authed
    /\ IF Len(srchReq.query) = 0
       THEN /\ srchResponse' = [status |-> 400, chunks |-> <<>>]
            /\ srchPc' = "responded"
            /\ UNCHANGED retrievalVars
       ELSE /\ StartRetrieval([query |-> srchReq.query,
                               userId |-> srchReq.user,
                               limit |-> OrDefault(srchReq.limit, DefaultLimit),
                               threshold |-> OrDefault(srchReq.threshold, DefaultThreshold)])
            /\ srchPc' = "searching"
            /\ UNCHANGED srchResponse
    /\ UNCHANGED srchReq
    /\ UNCHANGED <<chunkVars, citeVars, ingestVars, cleanVars, uploadVars>>
    /\ UNCHANGED <<deleteVars, chatVars>>

\* await searchRelevantChunks(...) settles: the chunks are answered, or the
\* catch answers 500.
SearchSettled ==
    /\ srchPc = "searching"
    /\ rvPc \in {"resolved", "rejected"}
    /\ srchResponse' = IF rvPc = "resolved" THEN SearchResponse(rvResult)
                       ELSE [status |-> 500, chunks |-> <<>>]
    /\ srchPc' = "responded"
    /\ UNCHANGED srchReq
    /\ UNCHANGED <<chunkVars, citeVars, ingestVars, cleanVars, uploadVars>>
    /\ UNCHANGED <<deleteVars, retrievalVars, chatVars>>

SearchNext == SearchUnauthorized \/ SearchPost \/ SearchSettled

SpecSearch == SearchInit /\ [][SearchNext \/ RetrievalNext]_vars

\* No stored passage the search sees has a similarity at or above the
\* threshold of the call.
NothingRelevant ==
    \A i \in 1..Len(simStore) :
        (simStore[i].owner = rvArgs.userId) => simStore[i].similarity < rvArgs.threshold

\* C14: a retrieval that ran (the query was embedded and the store answered)
\* while no visible passage reaches the threshold returns the empty sequence,
\* and the search endpoint answers it with status 200 and an empty chunk
\* list; with the body's defaults the call has threshold 0.3 and limit 5.
C14_NothingRelevantGivesEmptyResult ==
    /\ (rvPc = "resolved" /\ NothingRelevant) => rvResult = <<>>
    /\ (srchPc = "responded" /\ rvPc = "resolved" /\ NothingRelevant) =>
           srchResponse = [status |-> 200, chunks |-> <<>>]
    /\ (rvPc # "idle" /\ ~srchReq.threshold.given) => rvArgs.threshold = 30
    /\ (rvPc # "idle" /\ ~srchReq.limit.given) => rvArgs.limit = 5

\* C14 witness: the store holds a passage of the user at similarity 0.25, the
\* request left threshold and limit to their defaults, and it was answered.
C14_Witness ==
    /\ srchPc = "responded"
    /\ rvPc = "resolved"
    /\ ~srchReq.threshold.given /\ ~srchReq.limit.given
    /\ \E i \in 1..Len(simStore) :
          simStore[i].owner = srchReq.user /\ simStore[i].similarity = 25
    /\ NothingRelevant
    /\ srchResponse.status = 200

----------------------------------------------------------------------------
\* POST of the chat endpoint, from the RAG search to the start of streaming.
\* The user's message text is a sequence of characters; chatRetrieval records
\* how the RAG search of the request ended.

\* limit: 3, threshold: 0.3
ChatLimit == 3
ChatThreshold == 30

ChatTexts == SeqsUpTo({" ", "q"}, 2)

\* userMessageText.trim() is the empty string
IsBlank(t) == \A i \in 1..Len(t) : t[i] = " "

\* The context built from the chunks found: one numbered source per chunk
RagContextOf(relevantChunks) ==
    [i \in 1..Len(relevantChunks) |-> [source |-> i, chunk |-> relevantChunks[i].id]]

\* Mutant of AfterRagSearch: a failed search is rethrown to the outer catch.
AfterRagSearchRethrow(outcome) ==
    IF outcome = "rejected" THEN "failed" ELSE "savingMessage"

\* Where the handler goes on after the search settled: the catch logs the
\* error and falls through to saveMessages like the try block does.
AfterRagSearch(outcome) == "savingMessage"

ChatInit ==
    /\ chatReq \in ChatTexts
    /\ chatPc = "received"
    /\ ragContext = <<>>
    /\ chatRetrieval = "none"
    /\ chatSaved = FALSE
    /\ chatSystem = <<>>
    /\ simStore \in Stores
    /\ rvArgs = NoArgs /\ rvPc = "idle" /\ rvResult = <<>>
    /\ ChunkIdle /\ CiteIdle /\ IngestIdle
    /\ CleanIdle /\ UploadIdle
    /\ DeleteIdle /\ SearchIdle

\* let ragContext = ''; if (userMessageText.trim()) the search is called,
\* else the handler goes on to saveMessages.
ChatSearch ==
    /\ chatPc = "received"
    /\ IF IsBlank(chatReq)
       THEN /\ chatRetrieval' = "skipped"
            /\ chatPc' = "savingMessage"
            /\ UNCHANGED retrievalVars
       ELSE /\ StartRetrieval([query |-> chatReq, userId |-> "u1",
                               limit |-> ChatLimit, threshold |-> ChatThreshold])
            /\ chatRetrieval' = "none"
            /\ chatPc' = "retrieving"
    /\ UNCHANGED <<chatReq, ragContext, chatSaved, chatSystem>>
    /\ UNCHANGED <<chunkVars, citeVars, ingestVars, cleanVars, uploadVars>>
    /\ UNCHANGED <<deleteVars, searchVars>>

\* await searchRelevantChunks(...) settles: chunks found set ragContext, no
\* chunks leave it empty, a rejection is caught and logged.
ChatSearchSettled ==
    /\ chatPc = "retrieving"
    /\ rvPc \in {"resolved", "rejected"}
    /\ IF rvPc = "resolved"
       THEN IF Len(rvResult) > 0
            THEN /\ ragContext' = RagContextOf(rvResult)
                 /\ chatRetrieval' = "found"
            ELSE /\ UNCHANGED ragContext
                 /\ chatRetrieval' = "empty"
       ELSE /\ UNCHANGED ragContext
            /\ chatRetrieval' = "error"
    /\ chatPc' = AfterRagSearch(rvPc)
    /\ UNCHANGED <<chatReq, chatSaved, chatSystem>>
    /\ UNCHANGED <<chunkVars, citeVars, ingestVars, cleanVars, uploadVars>>
    /\ UNCHANGED <<deleteVars, retrievalVars, searchVars>>

\* await saveMessages(...) settles: the user message is saved, or the store
\* fails and the outer catch answers the error.
SaveMessagesDone ==
    /\ chatPc = "savingMessage"
    /\ \E ok \in BOOLEAN :
         /\ chatSaved' = ok
         /\ chatPc' = IF ok THEN "creatingStream" ELSE "failed"
    /\ UNCHANGED <<chatReq, ragContext, chatRetrieval, chatSystem>>
    /\ UNCHANGED <<chunkVars, citeVars, ingestVars, cleanVars, uploadVars>>
    /\ UNCHANGED <<deleteVars, retrievalVars, searchVars>>

\* await createStreamId(...) settles and the stream is created with
\* system: systemPrompt(...) + ragContext
StreamStarted ==
    /\ chatPc = "creatingStream"
    /\ \E ok \in BOOLEAN :
         IF ok
         THEN /\ chatSystem' = ragContext
              /\ chatPc' = "streaming"
         ELSE /\ UNCHANGED chatSystem
              /\ chatPc' = "failed"
    /\ UNCHANGED <<chatReq, ragContext, chatRetrieval, chatSaved>>
    /\ UNCHANGED <<chunkVars, citeVars, ingestVars, cleanVars, uploadVars>>
    /\ UNCHANGED <<deleteVars, retrievalVars, searchVars>>

ChatNext == ChatSearch \/ ChatSearchSettled \/ SaveMessagesDone \/ StreamStarted

SpecChat == ChatInit /\ [][ChatNext \/ RetrievalNext]_vars

\* C15: a retrieval failure during chat leaves the context empty and the
\* handler goes on to save the user message, exactly as when retrieval
\* returns no passages; it never fails the chat by itself, and the response
\* that is then streamed has the user message saved and no document context.
C15_RetrievalFailureDoesNotFailChat ==
    /\ [](chatRetrieval \in {"error", "empty"} =>
            /\ ragContext = <<>>
            /\ chatPc \in {"savingMessage", "creatingStream", "streaming", "failed"}
            /\ chatPc = "streaming" => (chatSaved /\ chatSystem = <<>>)
            /\ chatPc = "creatingStream" => chatSaved)
    /\ [][(chatPc = "retrieving" /\ chatPc' # "retrieving") =>
            /\ chatPc' = "savingMessage"
            /\ (rvPc = "rejected" \/ rvResult = <<>>) => ragContext' = <<>>
            /\ UNCHANGED <<chatSaved, chatSystem>>]_vars
    /\ [][chatPc' = "failed" => chatPc \in {"failed", "savingMessage", "creatingStream"}]_vars

\* C15 witness: the retrieval of a chat request failed, the user message was
\* saved and the response is being streamed without document context, while
\* the store holds a passage of the user that a working search would find.
C15_Witness ==
    /\ chatRetrieval = "error"
    /\ rvPc = "rejected"
    /\ chatPc = "streaming"
    /\ chatSaved
    /\ chatSystem = <<>>
    /\ \E i \in 1..Len(simStore) :
          simStore[i].owner = "u1" /\ simStore[i].similarity >= ChatThreshold

----------------------------------------------------------------------------
\* The parts together: a behaviour runs one of them.

Init ==
    \/ ChunkInit \/ CiteInit \/ IngestInit
    \/ CleanInit \/ UploadInit \/ StoreInit \/ ListInit
    \/ SearchInit \/ ChatInit

Next ==
    \/ ChunkNext \/ CiteNext \/ IngestNext
    \/ CleanNext \/ UploadNext \/ DeleteNext \/ ListNext
    \/ RetrievalNext \/ SearchNext \/ ChatNext

Spec == Init /\ [][Next]_vars

====
